---------------------------- MODULE Spec2Model ----------------------------
(***************************************************************************)
(* A model of p1_navigation/dqn_agent.py: the replay Memory, the DqnAgent  *)
(* action selection (_act), the TD target of _learn, and the train loop    *)
(* with its checkpoint file.                                               *)
(*                                                                         *)
(* Floats are modelled by integers.  Epsilon and the outcome of            *)
(* random.random() are counted in units of 1/EpsOne, so random.random(),   *)
(* whose range is [0.0, 1.0), ranges over 0 .. EpsOne-1.  Rewards, action  *)
(* values and gamma are small integers.  The environment, the optimizer    *)
(* and the network are opaque: the environment answers a step with any     *)
(* reward, observation and done flag (done at the latest on step MaxSteps  *)
(* of an episode), and an optimizer step leaves the online parameters at   *)
(* any value of TrainParams.                                               *)
(***************************************************************************)
EXTENDS Integers, Sequences, FiniteSets, TLC

(***************************************************************************)
(* Bounds of the model.                                                    *)
(***************************************************************************)
MaxBuffer == 2       \* largest replay_memory_size explored
MaxAppends == 5      \* Memory.append calls explored on one buffer
MaxEpisodes == 2     \* largest n_episodes explored
MaxSteps == 2        \* the environment signals done by this step of an episode
MaxCalls == 2        \* train calls explored on one checkpoint file
MaxReward == 1       \* rewards are 0 .. MaxReward
NActions == 2        \* size of the action set
EpsOne == 2          \* the integer that stands for epsilon = 1.0
MaxGamma == 1        \* gamma ranges over 0 .. MaxGamma
MaxBatch == 2        \* largest batch_size explored

States == {0, 1}      \* observations the action-value probes range over
Observations == {0}   \* observations the environment of train returns
Actions == 0 .. (NActions - 1)
Rewards == 0 .. MaxReward
QValues == {0, 1}     \* action values the probes range over
RandomDraws == 0 .. (EpsOne - 1)
NoFile == <<>>        \* the checkpoint file does not exist
Intact == "intact"    \* the checkpoint file is as _save_model wrote it
Unreadable == "unreadable"   \* torch.load cannot decode the file
None == "None"
Default == <<>>       \* a keyword argument left at None

Max(a, b) == IF a >= b THEN a ELSE b
Min(a, b) == IF a <= b THEN a ELSE b

RECURSIVE SumSeq(_)
SumSeq(s) == IF s = <<>> THEN 0 ELSE Head(s) + SumSeq(Tail(s))

(***************************************************************************)
(* The network: a table from observations to a vector of action values     *)
(* (a sequence indexed 1 .. NActions; action a is entry a + 1).            *)
(***************************************************************************)
ParamSpace == [States -> [1 .. NActions -> QValues]]

\* self._model(state): the action values of one observation
ActionValues(params, s) == params[s]

\* the parameters the train model starts from and an optimizer step may reach
TrainParams ==
    { [s \in States |-> [a \in 1 .. NActions |-> 0]],
      [s \in States |-> [a \in 1 .. NActions |-> IF a = NActions THEN 1 ELSE 0]] }

(***************************************************************************)
(* Memory                                                                  *)
(***************************************************************************)
Transition(state, action, reward, next_state, done) ==
    [state |-> state, action |-> action, reward |-> reward,
     next_state |-> next_state, done |-> done]

\* deque(maxlen = n).append(x): drop from the left once the deque is full
\* (variant: a full deque refuses the new element)
DequeAppendDropNewest(buf, maxlen, x) ==
    IF Len(buf) >= maxlen THEN buf ELSE Append(buf, x)

DequeAppend(buf, maxlen, x) ==
    IF maxlen = 0 THEN buf
    ELSE IF Len(buf) >= maxlen THEN Append(Tail(buf), x)
    ELSE Append(buf, x)

\* Memory.append
MemoryAppend(buf, maxlen, state, action, reward, next_state, done) ==
    DequeAppend(buf, maxlen, Transition(state, action, reward, next_state, done))

\* Memory.__len__
MemoryLen(buf) == Len(buf)


\* every batch random.sample(buf, k) can return: k distinct positions, any order
\* (variant: positions drawn with replacement, as random.choices would)
SamplePositionsRepeating(buf, k) == [1 .. k -> 1 .. Len(buf)]

SamplePositions(buf, k) ==
    { p \in [1 .. k -> 1 .. Len(buf)] : \A x, y \in 1 .. k : x # y => p[x] # p[y] }

\* random.sample(self._buffer, k = batch_size): ValueError when the sample is
\* larger than the population, else one of the batches of positions
\* (variant: a sample larger than the population is cut to the population)
RandomSampleClamped(buf, k) ==
    { [error |-> FALSE, picked |-> p] :
          p \in SamplePositions(buf, IF k > Len(buf) THEN Len(buf) ELSE k) }

RandomSample(buf, k) ==
    IF k > Len(buf)
    THEN { [error |-> TRUE, picked |-> <<>>] }
    ELSE { [error |-> FALSE, picked |-> p] : p \in SamplePositions(buf, k) }

(***************************************************************************)
(* DqnAgent._act                                                           *)
(***************************************************************************)
\* np.argmax: the first (0-based) index of the maximum of a non-empty vector
\* (variant: the first index of the minimum, as np.argmin would give)
ArgMin(v) ==
    CHOOSE a \in 0 .. (Len(v) - 1) :
        /\ \A b \in 0 .. (Len(v) - 1) : v[b + 1] >= v[a + 1]
        /\ \A b \in 0 .. (a - 1) : v[b + 1] > v[a + 1]

ArgMax(v) ==
    CHOOSE a \in 0 .. (Len(v) - 1) :
        /\ \A b \in 0 .. (Len(v) - 1) : v[b + 1] <= v[a + 1]
        /\ \A b \in 0 .. (a - 1) : v[b + 1] < v[a + 1]

\* _act(state, epsilon) when random.random() returns r and random.choice
\* would return c
Act(params, s, epsilon, r, c) ==
    IF r > epsilon THEN ArgMax(ActionValues(params, s)) ELSE c

(***************************************************************************)
(* DqnAgent._learn: the TD target                                          *)
(***************************************************************************)
\* q_next.max(1)[0]
MaxValue(v) == CHOOSE x \in { v[k] : k \in 1 .. Len(v) } :
                   \A k \in 1 .. Len(v) : v[k] <= x

\* np.vstack([e.done ...]).astype(np.uint8), then .float()
AsUint8(done) == IF done THEN 1 ELSE 0

\* the bootstrap value of one batch row
QNext(double_dqn, online, target, next_state) ==
    IF double_dqn
    THEN ActionValues(target, next_state)[ArgMax(ActionValues(online, next_state)) + 1]
    ELSE MaxValue(ActionValues(target, next_state))

\* q_targets = rewards + (gamma * q_next * (1 - dones)), one row
\* (variant: the (1 - dones) factor left out)
QTargetNoMask(reward, gamma, q_next, done) == reward + (gamma * q_next)

QTarget(reward, gamma, q_next, done) ==
    reward + (gamma * q_next * (1 - AsUint8(done)))

(***************************************************************************)
(* DqnAgent.train: helpers                                                 *)
(***************************************************************************)
\* scores[-window:] for window >= 1
LastN(s, n) == IF Len(s) <= n THEN s ELSE SubSeq(s, Len(s) - n + 1, Len(s))

\* np.mean(scores[-window:]) as the exact fraction sum / n (n = 0: nan)
TrailingMean(s, window) ==
    LET t == LastN(s, window) IN [sum |-> SumSeq(t), n |-> Len(t)]

\* avg_score > target_score and avg_score >= target_score (both False on nan)
\* (variant: no test of the restored scores at load)
MeanGTNever(avg, target) == FALSE

MeanGT(avg, target) == avg.n > 0 /\ avg.sum > target * avg.n

\* (variant: the test inside the loop is strict, like the one at load)
MeanGEStrict(avg, target) == avg.n > 0 /\ avg.sum > target * avg.n

MeanGE(avg, target) == avg.n > 0 /\ avg.sum >= target * avg.n

\* replay_start_size = batch_size * 2 when it is None
ReplayStartSize(kw) ==
    IF kw.replay_start_size = Default
    THEN kw.batch_size * 2
    ELSE kw.replay_start_size[1]

\* eps = max(eps_final, eps_decay_rate * eps); the rate is num / den
\* (variant: the decay without the floor at eps_final)
DecayEpsNoFloor(kw, e) == (kw.eps_decay_rate[1] * e) \div kw.eps_decay_rate[2]

DecayEps(kw, e) ==
    Max(kw.eps_final, (kw.eps_decay_rate[1] * e) \div kw.eps_decay_rate[2])

\* load_state_dict(copy.deepcopy(state_dict)): the receiver's new parameters
\* (variant: the receiver is left at freshly initialised parameters)
LoadStateDictIgnored(state_dict) == CHOOSE p \in TrainParams : TRUE

LoadStateDict(state_dict) == state_dict

\* the target network across optimizer.step(): the optimizer holds
\* self._model.parameters() only and the target is a deep copy
\* (variant: the target shares the online network's tensors)
TargetSharesOnline(target, online_after) == online_after

TargetAfterStep(target, online_after) == target

\* `if i > i0` before the last _save_model
\* (variant: the save after the loop is left to the periodic save)
FinalSaveNever(epoch, epoch0) == FALSE

FinalSaveDue(epoch, epoch0) == epoch > epoch0

\* the keys of a checkpoint, in the order train reads them (lines 191-196)
CheckpointKeys ==
    <<"epoch", "epsilon", "score_history", "model_state_dict",
      "optimizer_state_dict">>
KeyIndex(key) == CHOOSE n \in 1 .. Len(CheckpointKeys) : CheckpointKeys[n] = key

\* the ways a checkpoint file can be damaged: unreadable, or one key missing
Damages == {Unreadable} \cup { CheckpointKeys[n] : n \in 1 .. Len(CheckpointKeys) }

\* train got as far as reading checkpoint[key] before the load raised
ReadBeforeFailure(key, dmg) ==
    dmg = Intact \/ (dmg # Unreadable /\ KeyIndex(key) < KeyIndex(dmg))

\* train's i0, epsilon and score list when there is no checkpoint file
\* (variant: a cold start that does not explore)
ColdStartGreedy == [i0 |-> 0, eps |-> 0, scores |-> <<>>]

ColdStart == [i0 |-> 0, eps |-> EpsOne, scores |-> <<>>]

\* `if i % save_frequency == 0` after an episode that did not converge
\* (variant: no periodic save)
PeriodicSaveNever(epoch, save_frequency) == FALSE

PeriodicSaveDue(epoch, save_frequency) == epoch % save_frequency = 0

\* the record torch.save writes in _save_model
\* (variant: the epsilon written is the initial one)
CheckpointFreshEps(epoch, params, opt, e, hist) ==
    [epoch |-> epoch, epsilon |-> EpsOne, model_state_dict |-> params,
     optimizer_state_dict |-> opt, score_history |-> hist]

Checkpoint(epoch, params, opt, e, hist) ==
    [epoch |-> epoch, epsilon |-> e, model_state_dict |-> params,
     optimizer_state_dict |-> opt, score_history |-> hist]

(***************************************************************************)
(* State                                                                   *)
(***************************************************************************)
VARIABLES
    pc,             \* where the agent's caller is: see the actions
    buffer_size,    \* Memory: the deque's maxlen (replay_memory_size)
    memory,         \* Memory._buffer, oldest first
    model,          \* DqnAgent._model: the online parameters
    model_target,   \* DqnAgent._model_target
    ckpt,           \* self._model_file: NoFile, or <<the record saved>>
    damage,         \* what has happened to the file since it was written
    kwargs,         \* the keyword arguments of the train call
    optimizer,      \* train: the Adam optimizer's state
    i0, i, eps, scores, avg_score,      \* train: locals
    i_step, score, state, action, reward, done,
    outcome,        \* how the last train call ended
    calls,          \* train calls made so far
    total_steps,    \* environment steps taken by the current train call
    sync_fired,     \* the current step copied the online parameters to the target
    synced_params,  \* the online parameters when the target was last set
    episodes,       \* the episode indices the current train call has run
    saved,          \* what train held when it last wrote ckpt: see Saved
    loaded,         \* the current train call restored a checkpoint
    appended,       \* every transition handed to Memory.append, in order
    experiences, gamma, double_dqn, q_next, q_targets,   \* _learn
    batch,          \* what the last Memory.sample call returned: see MemSample
    epsilon, draw, choice,  \* _act: its epsilon, what random.random() returned
                            \* and what random.choice would return
    play_rewards    \* play: the reward of every step taken so far

memVars == <<buffer_size, memory, appended>>
agentVars == <<model, model_target, synced_params>>
fileVars == <<ckpt, saved, damage>>
localVars == <<i0, i, eps, scores, avg_score, i_step, score, state, action,
               reward, done, optimizer, loaded>>
ghostVars == <<outcome, total_steps, sync_fired, episodes>>
learnVars == <<experiences, gamma, double_dqn, q_next, q_targets, batch>>
actVars == <<epsilon, draw, choice, play_rewards>>
vars == <<pc, memVars, agentVars, fileVars, kwargs, calls, localVars,
          ghostVars, learnVars, actVars>>

NoAvg == [sum |-> 0, n |-> 0]

\* train's epoch, epsilon, score list and trailing mean at a _save_model call
Saved(epoch, e, hist, avg) ==
    [epoch |-> epoch, epsilon |-> e, scores |-> hist, avg_score |-> avg]
NoSave == Saved(0, EpsOne, <<>>, NoAvg)

\* the keyword arguments explored; n_episodes is chosen anew by each call
Kwargs ==
    [n_episodes : {0},
     eps_decay_rate : {<<1, 2>>},
     eps_final : {0, 1},
     target_network_update_frequency : 1 .. MaxSteps,
     batch_size : 1 .. MaxBatch,
     replay_start_size : {Default, <<0>>},
     window : 1 .. MaxEpisodes,
     target_score : 1 .. MaxSteps,
     save_frequency : 1 .. MaxEpisodes]

\* values of the variables a specification does not use
LocalsIdle ==
    /\ i0 = 0 /\ i = 0 /\ eps = EpsOne /\ scores = <<>> /\ avg_score = NoAvg
    /\ i_step = 0 /\ score = 0 /\ state = 0 /\ action = 0 /\ reward = 0
    /\ done = FALSE /\ optimizer = "fresh" /\ loaded = FALSE
GhostsIdle ==
    /\ outcome = None /\ total_steps = 0 /\ sync_fired = FALSE /\ episodes = <<>>
\* the five arrays Memory.sample stacks from the transitions at positions p
SampleArrays(buf, p) ==
    [states |-> [j \in 1 .. Len(p) |-> buf[p[j]].state],
     actions |-> [j \in 1 .. Len(p) |-> buf[p[j]].action],
     rewards |-> [j \in 1 .. Len(p) |-> buf[p[j]].reward],
     next_states |-> [j \in 1 .. Len(p) |-> buf[p[j]].next_state],
     dones |-> [j \in 1 .. Len(p) |-> AsUint8(buf[p[j]].done)]]

\* a Memory.sample(k) call: whether it raised, the positions random.sample
\* picked, the arrays returned and the buffer as it was at the call
SampleResult(k, o, buf) ==
    [k |-> k, error |-> o.error, picked |-> o.picked,
     arrays |-> SampleArrays(buf, o.picked), before |-> buf]
NoBatch == SampleResult(0, [error |-> FALSE, picked |-> <<>>], <<>>)

LearnIdle ==
    /\ experiences = <<>> /\ gamma = 1 /\ double_dqn = TRUE
    /\ q_next = <<>> /\ q_targets = <<>> /\ batch = NoBatch
ActIdle == epsilon = 0 /\ draw = 0 /\ choice = 0 /\ play_rewards = <<>>

(***************************************************************************)
(* DqnAgent.__init__ and train                                             *)
(***************************************************************************)
\* Memory(replay_memory_size) and the two networks of a new agent
Construct(params, size) ==
    /\ buffer_size' = size
    /\ memory' = <<>>
    /\ model' = params
    /\ model_target' = LoadStateDict(params)
    /\ synced_params' = params

Init ==
    /\ pc = "idle"
    /\ buffer_size \in 1 .. MaxBuffer
    /\ memory = <<>>
    /\ appended = <<>>
    /\ model \in TrainParams
    /\ model_target = LoadStateDict(model)
    /\ synced_params = model
    /\ ckpt = NoFile
    /\ saved = NoSave
    /\ damage = Intact
    /\ kwargs \in Kwargs
    /\ calls = 0
    /\ LocalsIdle /\ GhostsIdle /\ LearnIdle /\ ActIdle

\* _save_model(i, optimizer, eps, scores)
SaveModel ==
    /\ ckpt' = <<Checkpoint(i, model, optimizer, eps', scores')>>
    /\ saved' = Saved(i, eps', scores', avg_score')
    /\ damage' = Intact

\* train, lines 177-211: load the checkpoint or start cold
TrainLoad ==
    /\ pc \in {"idle", "returned"}
    /\ calls < MaxCalls
    /\ calls' = calls + 1
    /\ \E n \in 0 .. MaxEpisodes : kwargs' = [kwargs EXCEPT !.n_episodes = n]
    /\ total_steps' = 0 /\ sync_fired' = FALSE /\ episodes' = <<>>
    /\ i_step' = 0 /\ score' = 0 /\ state' = 0 /\ action' = 0 /\ reward' = 0
    /\ done' = FALSE
    /\ IF ckpt = NoFile
       THEN /\ i0' = ColdStart.i0 /\ eps' = ColdStart.eps
            /\ scores' = ColdStart.scores
            /\ optimizer' = "fresh"
            /\ avg_score' = NoAvg
            /\ loaded' = FALSE
            /\ i' = i0'
            /\ pc' = "loop" /\ outcome' = None
            /\ UNCHANGED agentVars
       ELSE IF damage # Intact
       THEN \* torch.load or one of the checkpoint[...] lookups raises
            /\ i0' = IF ReadBeforeFailure("epoch", damage)
                     THEN ckpt[1].epoch ELSE i0
            /\ eps' = IF ReadBeforeFailure("epsilon", damage)
                      THEN ckpt[1].epsilon ELSE eps
            /\ scores' = IF ReadBeforeFailure("score_history", damage)
                         THEN ckpt[1].score_history ELSE scores
            /\ IF ReadBeforeFailure("model_state_dict", damage)
               THEN /\ model' = LoadStateDict(ckpt[1].model_state_dict)
                    /\ model_target' = LoadStateDict(ckpt[1].model_state_dict)
                    /\ synced_params' = ckpt[1].model_state_dict
               ELSE UNCHANGED agentVars
            /\ optimizer' = IF damage = Unreadable THEN optimizer ELSE "fresh"
            /\ loaded' = FALSE
            /\ UNCHANGED <<avg_score, i>>
            /\ pc' = "failed"
            /\ outcome' = IF damage = Unreadable THEN "LoadError" ELSE "KeyError"
       ELSE /\ i0' = ckpt[1].epoch
            /\ eps' = ckpt[1].epsilon
            /\ scores' = ckpt[1].score_history
            /\ model' = LoadStateDict(ckpt[1].model_state_dict)
            /\ model_target' = LoadStateDict(ckpt[1].model_state_dict)
            /\ synced_params' = ckpt[1].model_state_dict
            /\ optimizer' = ckpt[1].optimizer_state_dict
            /\ avg_score' = TrailingMean(ckpt[1].score_history, kwargs.window)
            /\ loaded' = TRUE
            /\ i' = ckpt[1].epoch
            /\ IF MeanGT(avg_score', kwargs.target_score)
               THEN pc' = "returned" /\ outcome' = "AlreadySolved"
               ELSE pc' = "loop" /\ outcome' = None
    /\ UNCHANGED <<memVars, fileVars, learnVars, actVars>>

\* lines 212-218: the while test, env.reset and the episode's locals
EpisodeStart ==
    /\ pc = "loop"
    /\ IF i < kwargs.n_episodes
       THEN /\ i' = i + 1
            /\ episodes' = Append(episodes, i + 1)
            /\ \E s \in Observations : state' = s
            /\ score' = 0
            /\ i_step' = 0
            /\ pc' = "act"
            /\ outcome' = outcome
       ELSE /\ pc' = "final"
            /\ outcome' = "ExhaustedEpisodes"
            /\ UNCHANGED <<i, episodes, state, score, i_step>>
    /\ UNCHANGED <<memVars, agentVars, fileVars, kwargs, calls, i0, eps, scores,
                   avg_score, action, reward, done, optimizer, loaded,
                   total_steps, sync_fired, learnVars, actVars>>

\* lines 220-228: choose an action, step the environment, record the transition
EnvStep ==
    /\ pc = "act"
    /\ i_step' = i_step + 1
    /\ total_steps' = total_steps + 1
    /\ \E r \in RandomDraws, c \in Actions :
           action' = Act(model, state, eps, r, c)
    /\ \E rew \in Rewards, s \in Observations, d \in BOOLEAN :
           /\ i_step' >= MaxSteps => d
           /\ reward' = rew
           /\ done' = d
           /\ state' = s
           /\ memory' = MemoryAppend(memory, buffer_size, state, action', rew, s, d)
    /\ sync_fired' = FALSE
    /\ pc' = "learn"
    /\ UNCHANGED <<buffer_size, appended, agentVars, fileVars, kwargs, calls,
                   i0, i, eps, scores, avg_score, score, optimizer, loaded,
                   outcome, episodes, learnVars, actVars>>

\* lines 230-233: one _learn on a sampled batch once the buffer is warm;
\* random.sample raises ValueError when the batch is larger than the buffer
Learn ==
    /\ pc = "learn"
    /\ IF MemoryLen(memory) > ReplayStartSize(kwargs)
       THEN IF kwargs.batch_size > MemoryLen(memory)
            THEN /\ pc' = "raised"
                 /\ outcome' = "ValueError"
                 /\ UNCHANGED <<model, model_target, optimizer>>
            ELSE /\ \E b \in SamplePositions(memory, kwargs.batch_size) :
                        \E p \in TrainParams : model' = p
                 /\ model_target' = TargetAfterStep(model_target, model')
                 /\ optimizer' = "stepped"
                 /\ pc' = "sync"
                 /\ outcome' = outcome
       ELSE /\ pc' = "sync"
            /\ UNCHANGED <<model, model_target, optimizer, outcome>>
    /\ UNCHANGED <<memVars, synced_params, fileVars, kwargs, calls,
                   i0, i, eps, scores, avg_score, i_step, score, state, action,
                   reward, done, loaded, total_steps, sync_fired, episodes,
                   learnVars, actVars>>

\* lines 236-238: update the target network
SyncTarget ==
    /\ pc = "sync"
    /\ IF i_step % kwargs.target_network_update_frequency = 0
       THEN /\ model_target' = LoadStateDict(model)
            /\ synced_params' = model
            /\ sync_fired' = TRUE
       ELSE UNCHANGED <<model_target, synced_params, sync_fired>>
    /\ pc' = "tally"
    /\ UNCHANGED <<memVars, model, fileVars, kwargs, calls, localVars, outcome,
                   total_steps, episodes, learnVars, actVars>>

\* lines 240-242: add the reward, leave the episode when done
Tally ==
    /\ pc = "tally"
    /\ score' = score + reward
    /\ pc' = IF done THEN "episode_end" ELSE "act"
    /\ UNCHANGED <<memVars, agentVars, fileVars, kwargs, calls, i0, i, eps,
                   scores, avg_score, i_step, state, action, reward, done,
                   optimizer, loaded, ghostVars, learnVars, actVars>>

\* lines 244-260: score, epsilon, the convergence test and the periodic save
EpisodeEnd ==
    /\ pc = "episode_end"
    /\ scores' = Append(scores, score)
    /\ eps' = DecayEps(kwargs, eps)
    /\ avg_score' = TrailingMean(scores', kwargs.window)
    /\ IF MeanGE(avg_score', kwargs.target_score)
       THEN /\ SaveModel
            /\ pc' = "final"
            /\ outcome' = "Converged"
       ELSE /\ IF PeriodicSaveDue(i, kwargs.save_frequency)
               THEN SaveModel
               ELSE UNCHANGED fileVars
            /\ pc' = "loop"
            /\ outcome' = outcome
    /\ UNCHANGED <<memVars, agentVars, kwargs, calls, i0, i, i_step, score,
                   state, action, reward, done, optimizer, loaded, total_steps,
                   sync_fired, episodes, learnVars, actVars>>

\* lines 262-265: the final save and the return
TrainReturn ==
    /\ pc = "final"
    /\ IF FinalSaveDue(i, i0)
       THEN /\ ckpt' = <<Checkpoint(i, model, optimizer, eps, scores)>>
            /\ saved' = Saved(i, eps, scores, avg_score)
            /\ damage' = Intact
       ELSE UNCHANGED fileVars
    /\ pc' = "returned"
    /\ UNCHANGED <<memVars, agentVars, kwargs, calls, localVars, ghostVars,
                   learnVars, actVars>>

\* between two runs the checkpoint file is damaged: it becomes unreadable,
\* or it is replaced by a record that lacks one key
Corrupt ==
    /\ pc \in {"returned", "raised"}
    /\ calls < MaxCalls
    /\ ckpt # NoFile
    /\ damage = Intact
    /\ \E d \in Damages : damage' = d
    /\ UNCHANGED <<pc, memVars, agentVars, ckpt, saved, kwargs, calls,
                   localVars, ghostVars, learnVars, actVars>>

\* a later process builds a new agent on the same checkpoint file
NewAgent ==
    /\ pc \in {"returned", "raised", "failed"}
    /\ calls < MaxCalls
    /\ \E p \in TrainParams : Construct(p, buffer_size)
    /\ pc' = "idle"
    /\ UNCHANGED <<appended, fileVars, kwargs, calls, localVars, ghostVars,
                   learnVars, actVars>>

Next ==
    \/ TrainLoad
    \/ EpisodeStart
    \/ EnvStep
    \/ Learn
    \/ SyncTarget
    \/ Tally
    \/ EpisodeEnd
    \/ TrainReturn
    \/ Corrupt
    \/ NewAgent

Spec == Init /\ [][Next]_vars

(***************************************************************************)
(* Memory on its own: a buffer of any capacity and a run of appends        *)
(***************************************************************************)
\* the transitions handed to a Memory on its own
ProbeTransitions ==
    { Transition(s, 0, r, 1 - s, r = MaxReward) : s \in States, r \in Rewards }

AgentIdle ==
    /\ model = CHOOSE p \in TrainParams : TRUE
    /\ model_target = model
    /\ synced_params = model
    /\ ckpt = NoFile
    /\ saved = NoSave
    /\ damage = Intact
    /\ kwargs = CHOOSE k \in Kwargs : TRUE
    /\ calls = 0

InitMemory ==
    /\ pc = "memory"
    /\ buffer_size \in 0 .. MaxBuffer
    /\ memory = <<>>
    /\ appended = <<>>
    /\ AgentIdle /\ LocalsIdle /\ GhostsIdle /\ LearnIdle /\ ActIdle

\* Memory.append(state, action, reward, next_state, done)
MemAppend ==
    /\ pc = "memory"
    /\ Len(appended) < MaxAppends
    /\ \E t \in ProbeTransitions :
           /\ memory' = MemoryAppend(memory, buffer_size, t.state, t.action,
                                     t.reward, t.next_state, t.done)
           /\ appended' = Append(appended, t)
    /\ UNCHANGED <<pc, buffer_size, agentVars, fileVars, kwargs, calls,
                   localVars, ghostVars, learnVars, actVars>>

\* Memory.sample(batch_size), lines 36-51
MemSample ==
    /\ pc = "memory"
    /\ \E k \in 1 .. MaxBatch :
           \E o \in RandomSample(memory, k) :
               batch' = SampleResult(k, o, memory)
    /\ pc' = "sampled"
    /\ UNCHANGED <<memVars, agentVars, fileVars, kwargs, calls, localVars,
                   ghostVars, experiences, gamma, double_dqn, q_next,
                   q_targets, actVars>>

\* the caller drops the batch, or the error, and goes on using the Memory
MemResume ==
    /\ pc = "sampled"
    /\ batch' = NoBatch
    /\ pc' = "memory"
    /\ UNCHANGED <<memVars, agentVars, fileVars, kwargs, calls, localVars,
                   ghostVars, experiences, gamma, double_dqn, q_next,
                   q_targets, actVars>>

NextMemory ==
    \/ MemAppend
    \/ MemSample
    \/ MemResume

SpecMemory == InitMemory /\ [][NextMemory]_vars

(***************************************************************************)
(* _learn on its own: any batch, any pair of networks, up to the TD target *)
(***************************************************************************)
\* one sampled row, with the fields the TD target reads
Rows == [reward : Rewards, next_state : States, done : BOOLEAN]

InitLearn ==
    /\ pc = "learn_probe"
    /\ buffer_size = 0 /\ memory = <<>> /\ appended = <<>>
    /\ model_target \in ParamSpace
    /\ model \in TrainParams \cup {model_target}
    /\ synced_params = model_target
    /\ ckpt = NoFile /\ saved = NoSave /\ damage = Intact
    /\ kwargs = CHOOSE k \in Kwargs : TRUE
    /\ calls = 0
    /\ experiences \in [1 .. MaxBatch -> Rows]
    /\ gamma \in 0 .. MaxGamma
    /\ double_dqn \in BOOLEAN
    /\ q_next = <<>> /\ q_targets = <<>> /\ batch = NoBatch
    /\ LocalsIdle /\ GhostsIdle /\ ActIdle

\* _learn, lines 114-130: q_next and q_targets of every row of the batch
LearnTargets ==
    /\ pc = "learn_probe"
    /\ q_next' = [k \in 1 .. Len(experiences) |->
                     QNext(double_dqn, model, model_target,
                           experiences[k].next_state)]
    /\ q_targets' = [k \in 1 .. Len(experiences) |->
                        QTarget(experiences[k].reward, gamma, q_next'[k],
                                experiences[k].done)]
    /\ pc' = "learned"
    /\ UNCHANGED <<memVars, agentVars, fileVars, kwargs, calls, localVars,
                   ghostVars, experiences, gamma, double_dqn, batch, actVars>>

NextLearn == LearnTargets

SpecLearn == InitLearn /\ [][NextLearn]_vars

(***************************************************************************)
(* _act on its own: any network, observation and epsilon                   *)
(***************************************************************************)
InitAct ==
    /\ pc = "act_probe"
    /\ buffer_size = 0 /\ memory = <<>> /\ appended = <<>>
    /\ model \in ParamSpace
    /\ model_target = model
    /\ synced_params = model
    /\ ckpt = NoFile /\ saved = NoSave /\ damage = Intact
    /\ kwargs = CHOOSE k \in Kwargs : TRUE
    /\ calls = 0
    /\ i0 = 0 /\ i = 0 /\ eps = EpsOne /\ scores = <<>> /\ avg_score = NoAvg
    /\ i_step = 0 /\ score = 0 /\ action = 0 /\ reward = 0
    /\ done = FALSE /\ optimizer = "fresh" /\ loaded = FALSE
    /\ state \in States
    /\ epsilon \in 0 .. EpsOne
    /\ draw = 0 /\ choice = 0 /\ play_rewards = <<>>
    /\ GhostsIdle /\ LearnIdle

\* _act(state, epsilon = epsilon): one call, with its two random outcomes
ActCall ==
    /\ pc = "act_probe"
    /\ \E r \in RandomDraws, c \in Actions :
           /\ draw' = r
           /\ choice' = c
           /\ action' = Act(model, state, epsilon, r, c)
    /\ pc' = "acted"
    /\ UNCHANGED <<memVars, agentVars, fileVars, kwargs, calls, i0, i, eps,
                   scores, avg_score, i_step, score, state, reward, done,
                   optimizer, loaded, ghostVars, learnVars, epsilon,
                   play_rewards>>

NextAct == ActCall

SpecAct == InitAct /\ [][NextAct]_vars

(***************************************************************************)
(* play on its own: an agent with or without replayed transitions and a    *)
(* checkpoint file, in the environment train uses                          *)
(***************************************************************************)
\* score += reward, then `if done: break`
\* (variant: the loop is left before the last reward is added)
PlayScoreSkipTerminal(total, r, d) == IF d THEN total ELSE total + r

PlayScore(total, r, d) == total + r

InitPlay ==
    /\ pc = "play_idle"
    /\ buffer_size = MaxBuffer
    /\ memory \in {<<>>, <<Transition(0, 0, MaxReward, 0, TRUE)>>}
    /\ appended = memory
    /\ model \in TrainParams
    /\ model_target \in TrainParams
    /\ synced_params = model_target
    /\ \/ ckpt = NoFile /\ saved = NoSave
       \/ /\ ckpt = <<Checkpoint(1, model, "stepped", EpsOne - 1, <<MaxReward>>)>>
          /\ saved = Saved(1, EpsOne - 1, <<MaxReward>>,
                           TrailingMean(<<MaxReward>>, 1))
    /\ damage = Intact
    /\ kwargs = CHOOSE k \in Kwargs : TRUE
    /\ calls = 0
    /\ LocalsIdle /\ GhostsIdle /\ LearnIdle /\ ActIdle

\* play, lines 278-280: env.reset(train_mode = False) and score = 0
PlayStart ==
    /\ pc = "play_idle"
    /\ \E s \in Observations : state' = s
    /\ score' = 0
    /\ play_rewards' = <<>>
    /\ pc' = "play"
    /\ UNCHANGED <<memVars, agentVars, fileVars, kwargs, calls, i0, i, eps,
                   scores, avg_score, i_step, action, reward, done, optimizer,
                   loaded, ghostVars, learnVars, epsilon, draw, choice>>

\* play, lines 282-292: one pass of the loop; the score is printed once the
\* environment says done
PlayStep ==
    /\ pc = "play"
    /\ epsilon' = 0
    /\ \E r \in RandomDraws, c \in Actions :
           /\ draw' = r
           /\ choice' = c
           /\ action' = Act(model, state, epsilon', r, c)
    /\ \E rew \in Rewards, s \in Observations, d \in BOOLEAN :
           /\ Len(play_rewards) + 1 >= MaxSteps => d
           /\ reward' = rew
           /\ done' = d
           /\ state' = s
           /\ score' = PlayScore(score, rew, d)
           /\ play_rewards' = Append(play_rewards, rew)
           /\ pc' = IF d THEN "played" ELSE "play"
    /\ UNCHANGED <<memVars, agentVars, fileVars, kwargs, calls, i0, i, eps,
                   scores, avg_score, i_step, optimizer, loaded, ghostVars,
                   learnVars>>

NextPlay ==
    \/ PlayStart
    \/ PlayStep

SpecPlay == InitPlay /\ [][NextPlay]_vars

(***************************************************************************)
(* Properties                                                              *)
(***************************************************************************)

\* C1: after n appends to a buffer of capacity C the buffer never holds more
\* than C transitions, holds min(n, C) of them, and these are the last ones
\* appended, in append order: with n = C + k, exactly the k oldest are gone.
C1_FifoEviction ==
    LET n == Len(appended)
        k == IF n > buffer_size THEN n - buffer_size ELSE 0
    IN  /\ MemoryLen(memory) <= buffer_size
        /\ MemoryLen(memory) = Min(n, buffer_size)
        /\ memory = [j \in 1 .. (n - k) |-> appended[k + j]]

\* a full buffer that has evicted at least two transitions and whose oldest
\* kept transition differs from the ones it evicted
C1_Witness ==
    /\ pc = "memory"
    /\ buffer_size >= 2
    /\ Len(appended) >= buffer_size + 2
    /\ memory[1] # appended[1]
    /\ memory[1] # appended[2]
    /\ memory[1] # memory[2]

\* C8: in the TD target, a row with done = true gets the reward alone, whatever
\* gamma, the next state's values and the mode; a row with done = false gets
\* reward + gamma * q_next.
C8_TerminalBootstrap ==
    pc = "learned" =>
        \A k \in 1 .. Len(experiences) :
            /\ experiences[k].done => q_targets[k] = experiences[k].reward
            /\ ~experiences[k].done =>
                   q_targets[k] = experiences[k].reward + gamma * q_next[k]

\* a batch with a terminal row whose bootstrap term would not have been zero,
\* next to a non-terminal row
C8_Witness ==
    /\ pc = "learned"
    /\ gamma > 0
    /\ \E k \in 1 .. Len(experiences) : experiences[k].done /\ q_next[k] # 0
    /\ \E k \in 1 .. Len(experiences) : ~experiences[k].done /\ q_next[k] # 0

\* C9: when the online and the target network give the same values for every
\* next state, q_next is the maximum of the target's values in double-Q mode
\* as in vanilla mode, ties for the maximum included.
C9_DoubleEqualsVanilla ==
    (pc = "learned" /\ \A s \in States :
                           ActionValues(model, s) = ActionValues(model_target, s))
    => \A k \in 1 .. Len(experiences) :
           LET v == ActionValues(model_target, experiences[k].next_state)
           IN  /\ \E a \in 1 .. NActions : v[a] = q_next[k]
               /\ \A a \in 1 .. NActions : v[a] <= q_next[k]
               /\ q_next[k] = QNext(~double_dqn, model, model_target,
                                    experiences[k].next_state)

\* double-Q mode on identical networks, one row with a tie for the maximum
\* and one row whose maximum is not at the first action
C9_Witness ==
    /\ pc = "learned"
    /\ double_dqn
    /\ model = model_target
    /\ \E k \in 1 .. Len(experiences) :
           LET v == ActionValues(model_target, experiences[k].next_state)
           IN  \E a, b \in 1 .. NActions : a # b /\ v[a] = v[b] /\ v[a] = q_next[k]
    /\ \E k \in 1 .. Len(experiences) :
           LET v == ActionValues(model_target, experiences[k].next_state)
           IN  v[1] < q_next[k]

\* C10: with epsilon = 0, _act returns the first index of the maximum online
\* action value whatever the random draw is, never the random choice; with
\* epsilon = 1 it returns the random choice.
C10_GreedyAtZero ==
    pc = "acted" =>
        /\ epsilon = 0 =>
               LET v == ActionValues(model, state)
               IN  /\ \A a \in 1 .. NActions : v[a] <= v[action + 1]
                   /\ \A a \in 1 .. action : v[a] < v[action + 1]
        /\ epsilon = EpsOne => action = choice

\* positions of train inside an episode, and all positions of a train call
InEpisode == {"act", "learn", "sync", "tally", "episode_end"}
InTrain == InEpisode \cup {"loop", "final", "returned", "raised"}

\* episodes the current train call has completed
Completed == IF pc \in InEpisode \cup {"raised"}
             THEN Len(episodes) - 1 ELSE Len(episodes)

\* the mean of the last `window` of the first m scores is >= target_score
AvgReached(m) ==
    LET lo == Max(1, m - kwargs.window + 1)
    IN  m >= 1 /\ SumSeq(SubSeq(scores, lo, m)) >= kwargs.target_score * (m - lo + 1)

C3_EndsConvergedOrExhausted ==
    pc \in InTrain =>
        /\ pc \in {"returned", "raised"} =>
               outcome \in {"Converged", "ExhaustedEpisodes", "AlreadySolved"}
        /\ Len(episodes) <= Max(0, kwargs.n_episodes - i0)
        /\ \A k \in 1 .. Len(episodes) : episodes[k] = i0 + k

\* C4: a train call that loads a checkpoint saved at epoch e with epsilon x
\* and history S starts its first episode with index e + 1, runs it with
\* epsilon x, and computes at load the trailing average that the saving call
\* had computed.
C4_ResumeRoundTrip ==
    (pc \in InTrain /\ loaded /\ Completed = 0) =>
        /\ i0 = saved.epoch
        /\ eps = saved.epsilon
        /\ scores = saved.scores
        /\ avg_score = saved.avg_score
        /\ Len(episodes) = 1 => (episodes[1] = saved.epoch + 1 /\ i = saved.epoch + 1)

\* a resumed call inside its first episode, with a decayed epsilon and a
\* history of two scores
C4_Witness ==
    /\ pc = "learn"
    /\ loaded
    /\ Len(episodes) = 1
    /\ i = 2
    /\ eps < EpsOne
    /\ Len(scores) = 1

\* epsilon after k episodes of a cold start
RECURSIVE EpsAfterEpisodes(_)
EpsAfterEpisodes(k) ==
    IF k = 0 THEN EpsOne
    ELSE LET before == EpsAfterEpisodes(k - 1)
             decayed == (kwargs.eps_decay_rate[1] * before) \div kwargs.eps_decay_rate[2]
         IN  IF decayed >= kwargs.eps_final THEN decayed ELSE kwargs.eps_final

\* C5: when train returns after running at least one episode, the checkpoint
\* file holds the final state: the index of the last episode, the epsilon
\* after that episode's decay, the online parameters and every score (as many
\* scores as epochs on a cold start, the last one the last episode's).
C5_FinalCheckpoint ==
    (pc = "returned" /\ Len(episodes) >= 1) =>
        /\ ckpt # NoFile
        /\ ckpt[1].epoch = episodes[Len(episodes)]
        /\ ckpt[1].epoch = i
        /\ ckpt[1].epsilon = eps
        /\ ckpt[1].score_history = scores
        /\ ckpt[1].model_state_dict = model
        /\ Len(scores) >= 1 /\ scores[Len(scores)] = score
        /\ ~loaded => /\ Len(ckpt[1].score_history) = ckpt[1].epoch
                       /\ ckpt[1].epsilon = EpsAfterEpisodes(Len(episodes))

\* train has returned as ExhaustedEpisodes after an episode at which no
\* periodic save was due
C5_Witness ==
    /\ pc = "returned"
    /\ outcome = "ExhaustedEpisodes"
    /\ Len(episodes) >= 1
    /\ i % kwargs.save_frequency # 0

\* C6: the target is synchronized on exactly the environment steps whose
\* count over the whole train call is a multiple of the cadence.
C6_SyncOnGlobalSteps ==
    pc = "tally" =>
        (sync_fired <=> total_steps % kwargs.target_network_update_frequency = 0)

\* C7: the target parameters are the online parameters of the last
\* synchronization (a sync step of train, a checkpoint load, construction):
\* equal to the online ones right after it, and unchanged by later updates of
\* the online network.
C7_TargetIsSnapshot ==
    /\ model_target = synced_params
    /\ (pc = "tally" /\ sync_fired) => model_target = model
    /\ (pc \in {"loop", "final", "returned"} /\ loaded /\ episodes = <<>>)
           => model_target = model
    /\ pc = "idle" => model_target = model

\* an optimizer step has moved the online parameters away from the target
\* on a step without a sync
C7_Witness ==
    /\ pc = "tally"
    /\ ~sync_fired
    /\ optimizer = "stepped"
    /\ model # model_target

C12_SampleTooLarge ==
    (pc = "sampled" /\ batch.k > Len(batch.before)) =>
        /\ batch.error
        /\ \A f \in {"states", "actions", "rewards", "next_states", "dones"} :
               batch.arrays[f] = <<>>
        /\ memory = batch.before
        /\ MemoryLen(memory) = Len(batch.before)

\* a batch of two asked of a buffer that holds one transition
C12_Witness ==
    /\ pc = "sampled"
    /\ batch.error
    /\ batch.k = 2
    /\ Len(memory) = 1

\* C13: a train call that loads a checkpoint whose trailing average is above
\* target_score returns at once with the restored score list: it runs no
\* episode and takes no environment step, leaves the buffer, the score list
\* and the checkpoint file as they are, and makes no optimizer step (the
\* online parameters and the optimizer state are the restored ones).
C13_SolvedAtLoad ==
    [][(/\ calls' = calls + 1
        /\ ckpt # NoFile
        /\ damage = Intact
        /\ LET avg == TrailingMean(ckpt[1].score_history, kwargs'.window)
           IN  avg.n > 0 /\ avg.sum > kwargs'.target_score * avg.n)
       => /\ pc' = "returned"
          /\ outcome' = "AlreadySolved"
          /\ episodes' = <<>>
          /\ total_steps' = 0
          /\ memory' = memory
          /\ scores' = ckpt[1].score_history
          /\ model' = ckpt[1].model_state_dict
          /\ optimizer' = ckpt[1].optimizer_state_dict
          /\ ckpt' = ckpt /\ damage' = damage]_vars

\* an agent that has trained calls train again with episodes of its budget
\* left, and returns at load because the checkpoint is already solved
C13_Witness ==
    /\ pc = "returned"
    /\ outcome = "AlreadySolved"
    /\ calls = 2
    /\ Len(memory) >= 1
    /\ i0 < kwargs.n_episodes

\* C14: play runs one episode: every action is chosen with epsilon 0, the
\* episode ends at the first step that reports done and nothing follows it;
\* no step changes the buffer, the online or target parameters or the
\* checkpoint file; the score is the sum of the rewards of all steps taken,
\* the terminal one included.
C14_PlayOneEpisode ==
    [][/\ UNCHANGED <<memory, buffer_size, model, model_target, ckpt, damage>>
       /\ pc # "played"
       /\ pc = "play_idle" => (pc' = "play" /\ score' = 0 /\ play_rewards' = <<>>)
       /\ pc = "play" =>
              /\ epsilon' = 0
              /\ pc' = IF done' THEN "played" ELSE "play"
              /\ play_rewards' = Append(play_rewards, reward')
              /\ score' = SumSeq(play_rewards')]_vars

\* an episode of two steps played by an agent that has a transition in its
\* buffer and a checkpoint file, with a reward on the terminal step
C14_Witness ==
    /\ pc = "played"
    /\ Len(play_rewards) = 2
    /\ play_rewards[2] > 0
    /\ score = SumSeq(play_rewards)
    /\ memory # <<>>
    /\ ckpt # NoFile

\* C15: with no checkpoint file, train does not fail and starts cold: before
\* the first episode the score list is empty, the first episode has index 1
\* and runs with epsilon 1.0.
C15_ColdStart ==
    /\ pc = "failed" => ckpt # NoFile
    /\ (pc \in InTrain /\ Completed = 0 /\ ckpt = NoFile) =>
           /\ ~loaded
           /\ i0 = 0
           /\ eps = EpsOne
           /\ scores = <<>>
           /\ episodes # <<>> => (episodes = <<1>> /\ i = 1)

\* a cold start inside its first episode
C15_Witness ==
    /\ pc = "tally"
    /\ calls = 1
    /\ ckpt = NoFile
    /\ episodes = <<1>>
    /\ eps = EpsOne

\* C16: a train call that finds a damaged checkpoint file (unreadable, or
\* with a key missing) fails without running an episode and leaves the online
\* and target parameters, the buffer and the file as they were.
C16_FailedLoadRestoresNothing ==
    [][(pc' = "failed" /\ pc # "failed")
       => /\ episodes' = <<>>
          /\ total_steps' = 0
          /\ model' = model
          /\ model_target' = model_target
          /\ memory' = memory
          /\ ckpt' = ckpt /\ damage' = damage]_vars

\* index of the last episode completed, restored epochs counted
LastCompleted == IF pc \in InEpisode \cup {"raised"} THEN i - 1 ELSE i

\* C17: once an episode whose index is a multiple of save_frequency has ended,
\* converged or not, the checkpoint file holds that epoch before the next
\* episode starts and while it runs; the epoch on file is never
\* save_frequency or more behind the last completed episode.
C17_PeriodicSave ==
    pc \in InTrain =>
        /\ (Completed >= 1 /\ LastCompleted % kwargs.save_frequency = 0) =>
               (ckpt # NoFile /\ ckpt[1].epoch = LastCompleted)
        /\ LastCompleted >= kwargs.save_frequency =>
               /\ ckpt # NoFile
               /\ LastCompleted - ckpt[1].epoch < kwargs.save_frequency

\* back at the while test after an episode that did not converge and whose
\* index is a multiple of save_frequency, with episodes left to run
C17_Witness ==
    /\ pc = "loop"
    /\ Completed >= 1
    /\ i % kwargs.save_frequency = 0
    /\ i < kwargs.n_episodes
    /\ ckpt # NoFile /\ ckpt[1].epoch = i

\* C18: in train, whatever batch_size, replay_start_size and buffer capacity
\* are, _learn is reached only with more transitions in the buffer than the
\* threshold, and then batch_size is at most the buffer length, so that
\* Memory.sample never raises.
C18_SampleNeverRaises ==
    pc \in InTrain =>
        /\ outcome # "ValueError"
        /\ pc # "raised"
        /\ (pc = "learn" /\ MemoryLen(memory) > ReplayStartSize(kwargs)) =>
               kwargs.batch_size <= MemoryLen(memory)

\* C19: inside a train call epsilon and the score list change only at the end
\* of an episode: epsilon becomes max(eps_final, eps_decay_rate * epsilon)
\* and the episode's score is appended to the list, which never loses an
\* entry; on a cold start epsilon never grows and stays in [eps_final, 1].
C19_EpsilonSchedule ==
    [][(pc \in InTrain /\ calls' = calls /\ pc' \in InTrain)
       => /\ IF pc = "episode_end"
             THEN /\ LET decayed == (kwargs.eps_decay_rate[1] * eps)
                                        \div kwargs.eps_decay_rate[2]
                     IN  eps' = IF decayed >= kwargs.eps_final
                                THEN decayed ELSE kwargs.eps_final
                  /\ scores' = Append(scores, score)
             ELSE eps' = eps /\ scores' = scores
          /\ ~loaded => /\ eps' <= eps
                        /\ kwargs.eps_final <= eps'
                        /\ eps <= EpsOne]_vars

\* a cold start that has run two episodes and whose epsilon has come down to
\* eps_final, with one score per episode
C19_Witness ==
    /\ pc = "loop"
    /\ ~loaded
    /\ Completed = 2
    /\ Len(scores) = 2
    /\ kwargs.eps_final > 0
    /\ eps = kwargs.eps_final

\* C20: a train call that loads a checkpoint written when train converged
\* (trailing average >= target_score, same window and target) runs no episode
\* and returns at load as already solved.
C20_ConvergedSolvedAtLoad ==
    (pc \in InTrain /\ loaded /\ Completed = 0
         /\ MeanGE(saved.avg_score, kwargs.target_score))
    => /\ episodes = <<>>
       /\ pc = "returned"
       /\ outcome = "AlreadySolved"
=============================================================================
